---- MODULE Spec2Model ----
(***************************************************************************)
(* GampaDownloader (src/main.py): the job coordination core.               *)
(*                                                                         *)
(*   - the pure URL helpers (normalize_url, normalize_channel_to_videos,   *)
(*     looks_like_tab_entry), on strings modelled as sequences of          *)
(*     one-character strings;                                              *)
(*   - ExpandWorker, the persistent expansion thread: its event loop       *)
(*     (queued request signals, zero-delay timers), enqueue,               *)
(*     _process_next and _expand, one action per step at which the GUI     *)
(*     thread's direct call of stop() can interleave;                      *)
(*   - MainWindow, the GUI thread: the queue store (queue, url_set), the   *)
(*     table, _pending_count, the slots of the worker signals and the      *)
(*     user actions;                                                       *)
(*   - DownloadWorker.run, one thread per run.                             *)
(***************************************************************************)
EXTENDS Integers, Sequences, FiniteSets, TLC

\* ------------------------------------------------------------------ bounds
\* references submitted over the lifetime of the application
MaxSubmits == 2
\* references in one add_urls_as_queue call (drop, TXT import)
MaxBatch == 2
\* entries of one resolver listing
MaxEntries == 2
\* download runs created over the lifetime of the application
MaxRuns == 2
\* stop requests over the lifetime of the application
MaxStops == 1
\* items of the run the download specifications start from
MaxItems == 3
\* calls of the progress hook during one download
MaxHooks == 1

\* ----------------------------------------------------------------- strings
\* A string is a sequence of one-character strings; "" and None are <<>>.

UPPER == <<"A","B","C","D","E","F","G","H","I","J","K","L","M","N","O","P","Q","R","S","T","U","V","W","X","Y","Z">>
LOWER == <<"a","b","c","d","e","f","g","h","i","j","k","l","m","n","o","p","q","r","s","t","u","v","w","x","y","z">>

\* str.lower() on one character
LowerChar(c) ==
    IF \E i \in 1..Len(UPPER) : UPPER[i] = c
    THEN LOWER[CHOOSE i \in 1..Len(UPPER) : UPPER[i] = c]
    ELSE c

\* str.lower()
Lower(s) == [i \in 1..Len(s) |-> LowerChar(s[i])]

\* the characters str.strip() removes (the pool uses the blank only)
IsSpace(c) == c \in {" ", "\t", "\n"}

RECURSIVE LStrip(_)
LStrip(s) == IF s # <<>> /\ IsSpace(Head(s)) THEN LStrip(Tail(s)) ELSE s

RECURSIVE RStripSpace(_)
RStripSpace(s) ==
    IF s # <<>> /\ IsSpace(s[Len(s)]) THEN RStripSpace(SubSeq(s, 1, Len(s) - 1)) ELSE s

\* str.strip()
Strip(s) == RStripSpace(LStrip(s))

\* str.rstrip("/")
RECURSIVE RStripSlash(_)
RStripSlash(s) ==
    IF s # <<>> /\ s[Len(s)] = "/" THEN RStripSlash(SubSeq(s, 1, Len(s) - 1)) ELSE s

\* s.endswith(t)
EndsWith(s, t) ==
    /\ Len(t) <= Len(s)
    /\ SubSeq(s, Len(s) - Len(t) + 1, Len(s)) = t

\* t in s (substring)
Contains(s, t) ==
    \E i \in 1..(Len(s) - Len(t) + 1) : SubSeq(s, i, i + Len(t) - 1) = t

S_videos == <<"v","i","d","e","o","s">>
S_streams == <<"s","t","r","e","a","m","s">>
S_live == <<"l","i","v","e">>
S_shorts == <<"s","h","o","r","t","s">>
S_featured == <<"f","e","a","t","u","r","e","d">>
S_playlists == <<"p","l","a","y","l","i","s","t","s">>

TAB_SUFFIXES == {S_videos, S_streams, S_live, S_shorts, S_featured, S_playlists}

P_handle == <<"y","o","u","t","u","b","e",".","c","o","m","/","@">>
P_channel == <<"/","c","h","a","n","n","e","l","/">>
P_c == <<"/","c","/">>
P_user == <<"/","u","s","e","r","/">>
P_shorts == <<"/","s","h","o","r","t","s","/">>

normalize_url(url) == Strip(url)

HasTabSuffix(base) == \E t \in TAB_SUFFIXES : EndsWith(base, <<"/">> \o t)

\* the normalization without the test of line 115
normalize_channel_always(url) ==
    LET u == normalize_url(url)
        base == RStripSlash(u)
    IN  IF u = <<>> THEN u
        ELSE IF \/ Contains(base, P_handle)
                \/ Contains(base, P_channel)
                \/ Contains(base, P_c)
                \/ Contains(base, P_user)
             THEN base \o <<"/">> \o S_videos
        ELSE u

normalize_channel_to_videos(url) ==
    LET u == normalize_url(url)
        base == RStripSlash(u)
    IN  IF u = <<>> THEN u
        ELSE IF HasTabSuffix(base) THEN u
        ELSE IF \/ Contains(base, P_handle)
                \/ Contains(base, P_channel)
                \/ Contains(base, P_c)
                \/ Contains(base, P_user)
             THEN base \o <<"/">> \o S_videos
        ELSE u

\* x or y on strings
Or(x, y) == IF x # <<>> THEN x ELSE y

\* A resolver entry: some = FALSE is a None (or empty) entry, dropped by
\* "if e"; url, webpage_url and title are <<>> when absent.
EntryUrl(e) == Or(e.url, e.webpage_url)

looks_like_tab_entry(e) ==
    LET u == Lower(EntryUrl(e))
    IN  IF u = <<>> THEN FALSE
        ELSE HasTabSuffix(RStripSlash(u))

\* ------------------------------------------------------------------- pools
\* What the user types, drops or imports.
R_handle == <<" ","y","o","u","t","u","b","e",".","c","o","m","/","@","h","/"," ">>
R_short == <<"y","t",".","b","e","/","s","h","o","r","t","s","/","b">>
R_blank == <<" ">>
Refs == {R_handle, R_short, R_blank}

U_tab == <<"y","o","u","t","u","b","e",".","c","o","m","/","@","h","/","S","h","o","r","t","s","/">>
U_a == <<"y","t",".","b","e","/","a">>
U_a_sp == <<"y","t",".","b","e","/","a"," ">>
T_cat == <<"C","a","t">>
T_dog == <<"d","o","g">>
K_cat == <<"c","a","t">>

\* What the resolver (yt_dlp extract_info, flat) may put in a listing.
E_none == [some |-> FALSE, url |-> <<>>, webpage_url |-> <<>>, title |-> <<>>]
E_tab == [some |-> TRUE, url |-> U_tab, webpage_url |-> <<>>, title |-> <<>>]
E_a == [some |-> TRUE, url |-> U_a, webpage_url |-> <<>>, title |-> T_cat]
E_a2 == [some |-> TRUE, url |-> <<>>, webpage_url |-> U_a_sp, title |-> <<>>]
E_nourl == [some |-> TRUE, url |-> <<>>, webpage_url |-> <<>>, title |-> T_dog]
\* the entries listings are built from freely
CoreEntries == {E_tab, E_a}

\* listings with a None entry, an entry without URL, or the same URL twice
\* once normalized
OddListings ==
    {<<E_none>>, <<E_none, E_tab>>, <<E_nourl>>, <<E_a, E_nourl>>,
     <<E_a, E_a2>>, <<E_a2, E_a>>}

SeqsUpTo(S, n) == UNION {[1..k -> S] : k \in 0..n}

Listings == (SeqsUpTo(CoreEntries, MaxEntries) \ {<<>>}) \cup OddListings

\* What one call of _extract_flat may do: raise, return a falsy info, or
\* return a dict with a title and (possibly no) entries.
ResolveResults ==
    {[kind |-> "raise", title |-> <<>>, entries |-> <<>>],
     [kind |-> "none", title |-> <<>>, entries |-> <<>>]}
    \cup {[kind |-> "info", title |-> t, entries |-> <<>>] : t \in {<<>>, T_dog}}
    \cup {[kind |-> "info", title |-> <<>>, entries |-> es] : es \in Listings}

NoResult == [kind |-> "none", title |-> <<>>, entries |-> <<>>]

QueueItem(u, t) == [url |-> u, title |-> t, status |-> "Queued"]

\* ------------------------------------------------------------------- state
VARIABLES
    \* MainWindow (GUI thread)
    queue,              \* self.queue
    url_set,            \* self.url_set
    offered,            \* history: the URLs on_expand_finished_one has offered
                        \* to the store, in order, each as line 1313 normalizes it
    pending_count,      \* self._pending_count
    table,              \* self.table: the check state and the text of each row
    save_folder,        \* self.save_folder is non-empty
    log_to_file,        \* self.log_to_file
    filter_exclude_shorts,
    filter_include_kw,
    filter_exclude_kw,
    worker,             \* self.worker / self.worker_thread: 0 is None
    main_pc,            \* "ready", or inside on_stop between two statements
    mainq,              \* queued signals posted to the GUI thread
    \* ExpandWorker (expansion thread)
    requests,           \* request signals posted to the expansion thread
    timers,             \* pending QTimer.singleShot(0, _process_next)
    ew_stop,            \* self._stop
    ew_queue,           \* self._queue
    ew_working,         \* self._working
    ew_pc,              \* where the expansion thread is
    ew_url,             \* _expand: url
    ew_first,           \* _expand: entries, as the first call gave them
    ew_entries,         \* _expand: entries, as the loop visits them
    ew_i,               \* _expand: entries visited by the loop
    ew_collected,       \* _expand: collected
    ew_calls,           \* _extract_flat calls made by this _expand
    ew_orig,            \* what the resolver answers for the reference as submitted
    inflight,           \* _extract_flat calls executing
    \* DownloadWorker, one per run
    nruns,              \* runs created so far
    dw,                 \* run -> the worker's fields and position
    \* bounds of the environment
    nsubmits,
    nstops

mainVars == <<queue, url_set, offered, pending_count, table, worker, main_pc>>
settingVars == <<save_folder, log_to_file, filter_exclude_shorts,
                 filter_include_kw, filter_exclude_kw>>
ewVars == <<requests, timers, ew_stop, ew_queue, ew_working, ew_pc, ew_url,
            ew_first, ew_entries, ew_i, ew_collected, ew_calls, ew_orig,
            inflight>>
dwVars == <<nruns, dw>>
envVars == <<nsubmits, nstops>>
vars == <<mainVars, settingVars, mainq, ewVars, dwVars, envVars>>

\* A run's record: the DownloadWorker's fields (items, log_path, _stop,
\* _total, _done), where its thread is (pc), and as history the URLs whose
\* download was issued (attempted), the calls of the hook during the
\* download in progress (hooks), the last aggregate percentage emitted
\* (total_progress), how run() ended (outcome), the notifications the
\* thread's latest step emitted, in order (emitted), and where the thread
\* was and what _done was when stop() was first called (stop_pc, stop_done).
NoRun == [pc |-> "none", items |-> <<>>, log_path |-> FALSE, stop |-> FALSE,
          total |-> 0, done |-> 0, total_progress |-> 0, outcome |-> "none",
          attempted |-> <<>>, hooks |-> 0, emitted |-> <<>>,
          stop_pc |-> "none", stop_done |-> 0]

\* MainWindow.__init__ and ExpandWorker.__init__; the persisted settings
\* are at their defaults.
Init ==
    /\ queue = <<>>
    /\ url_set = {}
    /\ offered = <<>>
    /\ pending_count = 0
    /\ table = <<>>
    /\ save_folder = TRUE
    /\ log_to_file = FALSE
    /\ filter_exclude_shorts = FALSE
    /\ filter_include_kw = <<>>
    /\ filter_exclude_kw = <<>>
    /\ worker = 0
    /\ main_pc = "ready"
    /\ mainq = <<>>
    /\ requests = <<>>
    /\ timers = 0
    /\ ew_stop = FALSE
    /\ ew_queue = <<>>
    /\ ew_working = FALSE
    /\ ew_pc = "loop"
    /\ ew_url = <<>>
    /\ ew_first = <<>>
    /\ ew_entries = <<>>
    /\ ew_i = 0
    /\ ew_collected = <<>>
    /\ ew_calls = 0
    /\ ew_orig = NoResult
    /\ inflight = 0
    /\ nruns = 0
    /\ dw = [r \in 1..MaxRuns |-> NoRun]
    /\ nsubmits = 0
    /\ nstops = 0

\* ------------------------------------------------------------ ExpandWorker
\* Signal.emit towards the GUI thread (a queued connection).
Post(q, m) == Append(q, m)

\* "stopped" is history: what self._stop read when finished_one was emitted.
\* _expand clears the flag when it begins (line 475), so it reads True only
\* if stop() was called while this reference was being resolved.
\* "listed" is history too: for a notification of lines 529-533, how many
\* entries, None ones included, the resolver's answer listed.
FinishedOne(ok, msg, items) ==
    [sig |-> "finished_one", ok |-> ok, msg |-> msg, items |-> items, run |-> 0,
     stopped |-> ew_stop, listed |-> 0]
Idle ==
    [sig |-> "idle", ok |-> TRUE, msg |-> "idle", items |-> <<>>, run |-> 0,
     stopped |-> FALSE, listed |-> 0]
Finished(r, ok, msg) ==
    [sig |-> "finished", ok |-> ok, msg |-> msg, items |-> <<>>, run |-> r,
     stopped |-> FALSE, listed |-> 0]

\* [e for e in info["entries"] if e]
RECURSIVE Truthy(_)
Truthy(es) ==
    IF es = <<>> THEN <<>>
    ELSE IF Head(es).some THEN <<Head(es)>> \o Truthy(Tail(es))
    ELSE Truthy(Tail(es))

\* "entries" after line 491: [] unless info is a dict with entries
EntriesOf(res) == IF res.kind = "info" THEN Truthy(res.entries) ELSE <<>>

\* entries and all(looks_like_tab_entry(e) for e in entries)
AllTabs(es) == es # <<>> /\ \A i \in 1..Len(es) : looks_like_tab_entry(es[i])

\* lines 500-503: the retry's entries replace the first ones only when it
\* returned entries that are not all tab entries
AfterRetry(first, res2) ==
    LET entries2 == EntriesOf(res2)
    IN  IF entries2 # <<>> /\ ~AllTabs(entries2) THEN entries2 ELSE first

\* lines 517-521: one entry of the collection loop
CollectOne(collected, e) ==
    LET u == EntryUrl(e)
        t == e.title
    IN  IF u # <<>> THEN Append(collected, QueueItem(u, Or(t, u))) ELSE collected

EwLocals == <<ew_url, ew_first, ew_entries, ew_i, ew_collected, ew_calls, ew_orig>>

\* stop(), first statement: self._stop = True. Called directly by the GUI
\* thread, at any point of the expansion thread's execution.
EwStopSet == ew_stop' = TRUE

\* stop(), second statement: self._queue.clear()
EwStopClear == ew_queue' = <<>>

\* enqueue(url), the slot of a queued request signal
EwEnqueue ==
    /\ ew_pc = "loop"
    /\ requests # <<>>
    /\ requests' = Tail(requests)
    /\ LET url == normalize_url(Head(requests))
       IN  IF url = <<>>
           THEN UNCHANGED <<ew_queue, ew_working, timers>>
           ELSE /\ ew_queue' = Append(ew_queue, url)
                /\ IF ~ew_working
                   THEN ew_working' = TRUE /\ timers' = timers + 1
                   ELSE UNCHANGED <<ew_working, timers>>
    /\ UNCHANGED <<ew_stop, ew_pc, EwLocals, inflight, mainq>>

\* _process_next, lines 453-456: the timer fires and _stop is read
EwCheckStop ==
    /\ ew_pc = "loop"
    /\ timers > 0
    /\ timers' = timers - 1
    /\ IF ew_stop
       THEN /\ ew_working' = FALSE
            /\ mainq' = Post(mainq, Idle)
            /\ UNCHANGED ew_pc
       ELSE /\ ew_pc' = "check_queue"
            /\ UNCHANGED <<ew_working, mainq>>
    /\ UNCHANGED <<requests, ew_stop, ew_queue, EwLocals, inflight>>

\* _process_next, lines 457-460
EwCheckQueue ==
    /\ ew_pc = "check_queue"
    /\ IF ew_queue = <<>>
       THEN /\ ew_working' = FALSE
            /\ mainq' = Post(mainq, Idle)
            /\ ew_pc' = "loop"
       ELSE /\ ew_pc' = "pop"
            /\ UNCHANGED <<ew_working, mainq>>
    /\ UNCHANGED <<requests, timers, ew_stop, ew_queue, EwLocals, inflight>>

\* _process_next taking the newest reference (pop() for popleft())
EwPopNewest ==
    /\ ew_pc = "pop"
    /\ IF ew_queue = <<>>
       THEN /\ ew_pc' = "loop"
            /\ UNCHANGED <<ew_queue, ew_url>>
       ELSE /\ ew_url' = ew_queue[Len(ew_queue)]
            /\ ew_queue' = SubSeq(ew_queue, 1, Len(ew_queue) - 1)
            /\ ew_pc' = "expand"
    /\ UNCHANGED <<requests, timers, ew_stop, ew_working, ew_first, ew_entries,
                   ew_i, ew_collected, ew_calls, ew_orig, inflight, mainq>>

\* _process_next, line 461: popleft() raises IndexError when stop() has
\* emptied the deque since line 457; the slot is left by the exception, line
\* 463 is not reached and _working stays True.
EwPop ==
    /\ ew_pc = "pop"
    /\ IF ew_queue = <<>>
       THEN /\ ew_pc' = "loop"
            /\ UNCHANGED <<ew_queue, ew_url>>
       ELSE /\ ew_url' = Head(ew_queue)
            /\ ew_queue' = Tail(ew_queue)
            /\ ew_pc' = "expand"
    /\ UNCHANGED <<requests, timers, ew_stop, ew_working, ew_first, ew_entries,
                   ew_i, ew_collected, ew_calls, ew_orig, inflight, mainq>>

\* u is what add_urls_as_queue makes of a channel-root input: its
\* content-listing variant, different from the input
FromChannelRoot(u) ==
    \E r \in Refs : /\ normalize_channel_to_videos(r) = u
                    /\ normalize_url(r) # u

\* _expand handing the call to a thread of its own and returning at once
EwExpandBeginDetached(origs) ==
    /\ ew_pc = "expand"
    /\ ew_stop' = FALSE
    /\ inflight' = inflight + 1
    /\ timers' = timers + 1
    /\ ew_pc' = "loop"
    /\ UNCHANGED <<requests, ew_queue, ew_working, EwLocals, mainq>>

\* _expand, lines 475-480: self._stop = False, then the first _extract_flat
\* call begins. "origs" is the resolver's possible answers for the
\* reference as the user submitted it, which the code never asks for.
EwExpandBegin(origs) ==
    /\ ew_pc = "expand"
    /\ ew_stop' = FALSE
    /\ ew_calls' = 1
    /\ inflight' = inflight + 1
    /\ ew_pc' = "resolve"
    /\ \E orig \in (IF FromChannelRoot(ew_url) THEN origs ELSE {NoResult}) :
         ew_orig' = orig
    /\ UNCHANGED <<requests, timers, ew_queue, ew_working, ew_url, ew_first,
                   ew_entries, ew_i, ew_collected, mainq>>

\* _process_next without the singleShot of line 463
EwReturnUnscheduled(msg) ==
    /\ mainq' = Post(mainq, msg)
    /\ UNCHANGED timers
    /\ ew_pc' = "loop"
    /\ ew_url' = <<>>
    /\ ew_first' = <<>>
    /\ ew_entries' = <<>>
    /\ ew_i' = 0
    /\ ew_collected' = <<>>
    /\ ew_calls' = 0
    /\ ew_orig' = NoResult

\* _expand returns to _process_next, whose line 463 schedules the next step
EwReturn(msg) ==
    /\ mainq' = Post(mainq, msg)
    /\ timers' = timers + 1
    /\ ew_pc' = "loop"
    /\ ew_url' = <<>>
    /\ ew_first' = <<>>
    /\ ew_entries' = <<>>
    /\ ew_i' = 0
    /\ ew_collected' = <<>>
    /\ ew_calls' = 0
    /\ ew_orig' = NoResult

\* lines 510-533 are entered with "entries": lines 529-533 at once when
\* there are none (a single playable entity), else the loop of line 513
EwAfterEntries(res, entries) ==
    IF entries = <<>>
    THEN EwReturn([FinishedOne(TRUE, "done",
                               <<QueueItem(ew_url, Or(res.title, ew_url))>>)
                     EXCEPT !.listed = Len(res.entries)])
    ELSE /\ ew_pc' = "collect"
         /\ ew_first' = entries
         /\ ew_entries' = entries
         /\ UNCHANGED <<mainq, timers, ew_url, ew_i, ew_collected, ew_calls,
                        ew_orig>>

\* _expand, lines 480-497: the first call returns res
EwFirstReturn(res) ==
    IF res.kind = "raise"
    THEN /\ inflight' = inflight - 1
         /\ EwReturn(FinishedOne(FALSE, "failed", <<>>))
    ELSE IF res.kind = "none"
    THEN /\ inflight' = inflight - 1
         /\ EwReturn(FinishedOne(FALSE, "noinfo", <<>>))
    ELSE LET entries == EntriesOf(res)
             retry_url == normalize_channel_to_videos(ew_url)
         IN  IF AllTabs(entries) /\ retry_url # ew_url
             THEN /\ ew_pc' = "retry"
                  /\ ew_first' = entries
                  /\ ew_calls' = ew_calls + 1
                  /\ UNCHANGED <<inflight, mainq, timers, ew_url, ew_entries,
                                 ew_i, ew_collected, ew_orig>>
             ELSE /\ inflight' = inflight - 1
                  /\ EwAfterEntries(res, entries)

\* _expand, lines 499-508: the retry returns res (an exception is caught)
EwRetryReturn(res) ==
    /\ inflight' = inflight - 1
    /\ ew_entries' = AfterRetry(ew_first, res)
    /\ ew_pc' = "collect"
    /\ UNCHANGED <<timers, ew_url, ew_first, ew_i, ew_collected, ew_calls,
                   ew_orig, mainq>>

\* a call of _extract_flat returns: the resolver answers from "pool"
EwExtractReturn(pool) ==
    /\ ew_pc \in {"resolve", "retry"}
    /\ \E res \in pool :
         IF ew_pc = "resolve" THEN EwFirstReturn(res) ELSE EwRetryReturn(res)
    /\ UNCHANGED <<requests, ew_stop, ew_queue, ew_working>>

\* the loop without the test of line 514
EwCollectToEnd ==
    /\ ew_pc = "collect"
    /\ LET collected == CollectOne(ew_collected, ew_entries[ew_i + 1])
       IN  IF ew_i + 1 = Len(ew_entries)
           THEN EwReturn(FinishedOne(TRUE, "done", collected))
           ELSE /\ ew_collected' = collected
                /\ ew_i' = ew_i + 1
                /\ UNCHANGED <<mainq, timers, ew_pc, ew_url, ew_first,
                               ew_entries, ew_calls, ew_orig>>
    /\ UNCHANGED <<requests, ew_stop, ew_queue, ew_working, inflight>>

\* _expand, lines 513-527: one iteration of the loop; after the last one,
\* lines 525-527
EwCollectStep ==
    /\ ew_pc = "collect"
    /\ IF ew_stop
       THEN EwReturn(FinishedOne(FALSE, "cancelled", ew_collected))
       ELSE LET collected == CollectOne(ew_collected, ew_entries[ew_i + 1])
            IN  IF ew_i + 1 = Len(ew_entries)
                THEN EwReturn(FinishedOne(TRUE, "done", collected))
                ELSE /\ ew_collected' = collected
                     /\ ew_i' = ew_i + 1
                     /\ UNCHANGED <<mainq, timers, ew_pc, ew_url, ew_first,
                                    ew_entries, ew_calls, ew_orig>>
    /\ UNCHANGED <<requests, ew_stop, ew_queue, ew_working, inflight>>

\* -------------------------------------------------------------- MainWindow
\* refresh_state, lines 1262-1264: the buttons it disables while "working"
\* are add, remove, clear and pick; the toolbar actions and the drop target
\* stay enabled.
Working == pending_count > 0 \/ worker # 0

\* render_table_all: one row per queue item, every row checked, showing the
\* item's title or else its url; shows is the url of the item the row was
\* rendered from
RenderTable(q) ==
    [i \in 1..Len(q) |->
        [checked |-> TRUE, title |-> Or(q[i].title, q[i].url), shows |-> q[i].url]]

\* the store's add without the membership test of line 1315
RECURSIVE AddAllUnchecked(_, _, _)
AddAllUnchecked(q, known, items) ==
    IF items = <<>> THEN [queue |-> q, url_set |-> known]
    ELSE LET it == Head(items)
             u == normalize_url(it.url)
             t == Or(it.title, u)
         IN  IF u = <<>>
             THEN AddAllUnchecked(q, known, Tail(items))
             ELSE AddAllUnchecked(Append(q, QueueItem(u, t)), known \cup {u},
                                  Tail(items))

\* on_expand_finished_one, lines 1311-1319: the store's add, item by item
RECURSIVE AddAll(_, _, _)
AddAll(q, known, items) ==
    IF items = <<>> THEN [queue |-> q, url_set |-> known]
    ELSE LET it == Head(items)
             u == normalize_url(it.url)
             t == Or(it.title, u)
         IN  IF u = <<>> \/ u \in known
             THEN AddAll(q, known, Tail(items))
             ELSE AddAll(Append(q, QueueItem(u, t)), known \cup {u}, Tail(items))

\* [normalize_url(u) for u in urls if normalize_url(u)]
RECURSIVE NonBlank(_)
NonBlank(urls) ==
    IF urls = <<>> THEN <<>>
    ELSE IF normalize_url(Head(urls)) # <<>>
         THEN <<normalize_url(Head(urls))>> \o NonBlank(Tail(urls))
         ELSE NonBlank(Tail(urls))

\* the URLs, as line 1313 normalizes them, of a list of items; line 1315
\* skips the empty ones
ItemUrls(items) == NonBlank([i \in 1..Len(items) |-> items[i].url])

\* on_expand_finished_one without the max(0, ...) of line 1308
OnExpandFinishedOneUnclamped(m) ==
    LET r == AddAll(queue, url_set, m.items)
    IN  /\ pending_count' = pending_count - 1
        /\ queue' = r.queue
        /\ url_set' = r.url_set
        /\ offered' = offered \o ItemUrls(m.items)
        /\ UNCHANGED <<table, worker>>

\* on_expand_finished_one
OnExpandFinishedOne(m) ==
    LET r == AddAll(queue, url_set, m.items)
    IN  /\ pending_count' = IF pending_count - 1 > 0 THEN pending_count - 1 ELSE 0
        /\ queue' = r.queue
        /\ url_set' = r.url_set
        /\ offered' = offered \o ItemUrls(m.items)
        /\ UNCHANGED <<table, worker>>

\* on_expand_idle
OnExpandIdle ==
    /\ IF pending_count = 0
       THEN table' = RenderTable(queue)
       ELSE UNCHANGED table
    /\ UNCHANGED <<queue, url_set, offered, pending_count, worker>>

\* on_download_finished
OnDownloadFinished(m) ==
    /\ worker' = 0
    /\ UNCHANGED <<queue, url_set, offered, pending_count, table>>

\* The GUI thread's event loop delivers the oldest queued signal.
MainDeliver ==
    /\ main_pc = "ready"
    /\ mainq # <<>>
    /\ mainq' = Tail(mainq)
    /\ LET m == Head(mainq)
       IN  CASE m.sig = "finished_one" -> OnExpandFinishedOne(m)
             [] m.sig = "idle" -> OnExpandIdle
             [] m.sig = "finished" -> OnDownloadFinished(m)
    /\ UNCHANGED <<main_pc, settingVars, ewVars, dwVars, envVars>>

\* add_urls_as_queue, lines 1286-1298, called with one of the lists batches
AddUrlsFrom(batches) ==
    /\ main_pc = "ready"
    /\ \E urls \in batches :
         /\ nsubmits + Len(urls) <= MaxSubmits
         /\ nsubmits' = nsubmits + Len(urls)
         /\ LET stripped == NonBlank(urls)
                fixed == [i \in 1..Len(stripped) |->
                             normalize_channel_to_videos(stripped[i])]
            IN  /\ pending_count' = pending_count + Len(fixed)
                /\ requests' = requests \o fixed
    /\ UNCHANGED <<queue, url_set, offered, table, worker, main_pc, settingVars, mainq,
                   timers, ew_stop, ew_queue, ew_working, ew_pc, EwLocals,
                   inflight, dwVars, nstops>>

\* add_urls_as_queue, reached from on_add_clicked (one url), dropEvent and
\* on_load_queue_txt
AddUrls == AddUrlsFrom(SeqsUpTo(Refs, MaxBatch) \ {<<>>})

\* the rows whose box is checked, in row order
RECURSIVE CheckedFrom(_, _)
CheckedFrom(t, r) ==
    IF r > Len(t) THEN <<>>
    ELSE IF t[r].checked THEN <<r>> \o CheckedFrom(t, r + 1)
    ELSE CheckedFrom(t, r + 1)

CheckedRows(t) == CheckedFrom(t, 1)

\* list.pop(r)
RemoveAt(q, r) == SubSeq(q, 1, r - 1) \o SubSeq(q, r + 1, Len(q))

\* the removal without the discard of line 1364
RECURSIVE RemoveRowsKeepingUrls(_, _, _)
RemoveRowsKeepingUrls(q, known, rows) ==
    IF rows = <<>> THEN [queue |-> q, url_set |-> known]
    ELSE LET r == rows[Len(rows)]
             rest == SubSeq(rows, 1, Len(rows) - 1)
         IN  IF 1 <= r /\ r <= Len(q)
             THEN RemoveRowsKeepingUrls(RemoveAt(q, r), known, rest)
             ELSE RemoveRowsKeepingUrls(q, known, rest)

\* on_remove_checked, lines 1362-1365: for r in reversed(rows)
RECURSIVE RemoveRows(_, _, _)
RemoveRows(q, known, rows) ==
    IF rows = <<>> THEN [queue |-> q, url_set |-> known]
    ELSE LET r == rows[Len(rows)]
             rest == SubSeq(rows, 1, Len(rows) - 1)
         IN  IF 1 <= r /\ r <= Len(q)
             THEN RemoveRows(RemoveAt(q, r), known \ {q[r].url}, rest)
             ELSE RemoveRows(q, known, rest)

\* on_remove_checked without the render_table_all of line 1368
OnRemoveCheckedUnrendered ==
    /\ main_pc = "ready"
    /\ ~Working
    /\ LET rows == CheckedRows(table)
           r == RemoveRows(queue, url_set, rows)
       IN  IF rows = <<>>
           THEN UNCHANGED <<queue, url_set, offered, table>>
           ELSE /\ queue' = r.queue
                /\ url_set' = r.url_set
                /\ UNCHANGED <<offered, table>>
    /\ UNCHANGED <<pending_count, worker, main_pc, settingVars, mainq, ewVars,
                   dwVars, envVars>>

\* on_remove_checked (btn_remove, enabled while not working)
OnRemoveChecked ==
    /\ main_pc = "ready"
    /\ ~Working
    /\ LET rows == CheckedRows(table)
           r == RemoveRows(queue, url_set, rows)
       IN  IF rows = <<>>
           THEN UNCHANGED <<queue, url_set, offered, table>>
           ELSE /\ queue' = r.queue
                /\ url_set' = r.url_set
                /\ table' = RenderTable(r.queue)
                /\ UNCHANGED offered
    /\ UNCHANGED <<pending_count, worker, main_pc, settingVars, mainq, ewVars,
                   dwVars, envVars>>

\* on_clear (btn_clear, enabled while not working)
OnClear ==
    /\ main_pc = "ready"
    /\ ~Working
    /\ table' = <<>>
    /\ queue' = <<>>
    /\ url_set' = {}
    /\ UNCHANGED <<offered, pending_count, worker, main_pc, settingVars, mainq, ewVars,
                   dwVars, envVars>>

\* the user checks or unchecks the box of a row
ToggleCheck ==
    /\ main_pc = "ready"
    /\ \E r \in 1..Len(table) : table' = [table EXCEPT ![r].checked = ~@]
    /\ UNCHANGED <<queue, url_set, offered, pending_count, worker, main_pc, settingVars,
                   mainq, ewVars, dwVars, envVars>>

\* on_pick_folder (btn_pick, enabled while not working), a folder chosen
OnPickFolder ==
    /\ main_pc = "ready"
    /\ ~Working
    /\ save_folder' = TRUE
    /\ UNCHANGED <<mainVars, log_to_file, filter_exclude_shorts,
                   filter_include_kw, filter_exclude_kw, mainq, ewVars, dwVars,
                   envVars>>

\* on_toggle_logfile with the worker reading the setting through the window
OnToggleLogfileLive ==
    /\ main_pc = "ready"
    /\ log_to_file' = ~log_to_file
    /\ dw' = IF worker # 0 THEN [dw EXCEPT ![worker].log_path = ~log_to_file]
             ELSE dw
    /\ UNCHANGED <<mainVars, save_folder, filter_exclude_shorts,
                   filter_include_kw, filter_exclude_kw, mainq, ewVars, nruns,
                   envVars>>

\* on_toggle_logfile
OnToggleLogfile ==
    /\ main_pc = "ready"
    /\ log_to_file' = ~log_to_file
    /\ UNCHANGED <<mainVars, save_folder, filter_exclude_shorts,
                   filter_include_kw, filter_exclude_kw, mainq, ewVars, dwVars,
                   envVars>>

\* on_filter_changed
OnFilterChanged ==
    /\ main_pc = "ready"
    /\ \E es \in BOOLEAN, kin \in {<<>>, K_cat}, kout \in {<<>>, K_cat} :
         /\ filter_exclude_shorts' = es
         /\ filter_include_kw' = kin
         /\ filter_exclude_kw' = kout
    /\ UNCHANGED <<mainVars, save_folder, log_to_file, mainq, ewVars, dwVars,
                   envVars>>

\* the three predicates comparing the texts as they were typed
PassesFilterAsTyped(qi) ==
    /\ ~(filter_exclude_shorts /\ Contains(qi.url, P_shorts))
    /\ ~(filter_include_kw # <<>> /\ ~Contains(qi.title, filter_include_kw))
    /\ ~(filter_exclude_kw # <<>> /\ Contains(qi.title, filter_exclude_kw))

\* on_start, lines 1439-1449: the three local predicates on one item
PassesFilter(qi) ==
    /\ ~(filter_exclude_shorts /\ Contains(Lower(qi.url), P_shorts))
    /\ ~(filter_include_kw # <<>>
           /\ ~Contains(Lower(qi.title), Lower(filter_include_kw)))
    /\ ~(filter_exclude_kw # <<>>
           /\ Contains(Lower(qi.title), Lower(filter_exclude_kw)))

\* on_start, lines 1435-1451
RECURSIVE FilterItems(_, _)
FilterItems(q, idxs) ==
    IF idxs = <<>> THEN <<>>
    ELSE LET qi == q[Head(idxs)]
         IN  IF PassesFilter(qi)
             THEN <<qi>> \o FilterItems(q, Tail(idxs))
             ELSE FilterItems(q, Tail(idxs))

\* DownloadWorker.__init__
NewRun(items, log_path) ==
    [pc |-> "started", items |-> items, log_path |-> log_path, stop |-> FALSE,
     total |-> 0, done |-> 0, total_progress |-> 0, outcome |-> "none",
     attempted |-> <<>>, hooks |-> 0, emitted |-> <<>>,
     stop_pc |-> "none", stop_done |-> 0]

\* on_start without the test of line 1453
OnStartUnfiltered ==
    /\ main_pc = "ready"
    /\ LET idxs == CheckedRows(table)
           items == FilterItems(queue, idxs)
       IN  IF \/ ~save_folder
              \/ pending_count > 0
              \/ idxs = <<>>
           THEN UNCHANGED <<worker, nruns, dw>>
           ELSE /\ nruns < MaxRuns
                /\ nruns' = nruns + 1
                /\ dw' = [dw EXCEPT ![nruns + 1] = NewRun(items, log_to_file)]
                /\ worker' = nruns + 1
    /\ UNCHANGED <<queue, url_set, offered, pending_count, table, main_pc, settingVars,
                   mainq, ewVars, envVars>>

\* on_start (btn_start, and the toolbar action act_start, which
\* refresh_state never disables)
OnStart ==
    /\ main_pc = "ready"
    /\ LET idxs == CheckedRows(table)
           items == FilterItems(queue, idxs)
       IN  IF \/ ~save_folder
              \/ pending_count > 0
              \/ idxs = <<>>
              \/ items = <<>>
           THEN UNCHANGED <<worker, nruns, dw>>
           ELSE /\ nruns < MaxRuns
                /\ nruns' = nruns + 1
                /\ dw' = [dw EXCEPT ![nruns + 1] = NewRun(items, log_to_file)]
                /\ worker' = nruns + 1
    /\ UNCHANGED <<queue, url_set, offered, pending_count, table, main_pc, settingVars,
                   mainq, ewVars, envVars>>

\* on_stop, line 1513 as far as stop()'s first statement
OnStopBegin ==
    /\ main_pc = "ready"
    /\ nstops < MaxStops
    /\ nstops' = nstops + 1
    /\ EwStopSet
    /\ main_pc' = "on_stop"
    /\ UNCHANGED <<queue, url_set, offered, pending_count, table, worker, settingVars,
                   mainq, requests, timers, ew_queue, ew_working, ew_pc,
                   EwLocals, inflight, dwVars, nsubmits>>

\* DownloadWorker.stop, called by the GUI thread
StopRun(r) ==
    [dw EXCEPT ![r].stop = TRUE,
               ![r].stop_pc = IF @ = "none" THEN dw[r].pc ELSE @,
               ![r].stop_done = IF dw[r].stop_pc = "none" THEN dw[r].done ELSE @]

\* on_stop, the rest: stop()'s second statement and lines 1517-1534
OnStopEnd ==
    /\ main_pc = "on_stop"
    /\ EwStopClear
    /\ pending_count' = 0
    /\ dw' = IF worker # 0 THEN StopRun(worker) ELSE dw
    /\ main_pc' = "ready"
    /\ UNCHANGED <<queue, url_set, offered, table, worker, settingVars, mainq, requests,
                   timers, ew_stop, ew_working, ew_pc, EwLocals, inflight,
                   nruns, envVars>>

\* closeEvent, lines 749-753: the download worker's stop(), if there is one
OnCloseBegin ==
    /\ main_pc = "ready"
    /\ main_pc' = "close_wait_dw"
    /\ dw' = IF worker # 0 THEN StopRun(worker) ELSE dw
    /\ UNCHANGED <<queue, url_set, offered, pending_count, table, worker,
                   settingVars, mainq, ewVars, nruns, envVars>>

\* closeEvent, lines 754-759: quit() and wait(5000) on the download thread
\* when there is one; the wait ends with the thread or after five seconds
OnCloseWaitDw ==
    /\ main_pc = "close_wait_dw"
    /\ main_pc' = "close_stop_ew"
    /\ UNCHANGED <<queue, url_set, offered, pending_count, table, worker,
                   settingVars, mainq, ewVars, dwVars, envVars>>

\* closeEvent, lines 760-762: the expansion worker's stop()
OnCloseStopEw ==
    /\ main_pc = "close_stop_ew"
    /\ main_pc' = "close_wait_ew"
    /\ EwStopSet
    /\ EwStopClear
    /\ UNCHANGED <<queue, url_set, offered, pending_count, table, worker,
                   settingVars, mainq, requests, timers, ew_working, ew_pc,
                   EwLocals, inflight, dwVars, envVars>>

\* closeEvent, lines 763-768: quit() and wait(5000) on the expansion
\* thread, then the window closes
OnCloseWaitEw ==
    /\ main_pc = "close_wait_ew"
    /\ main_pc' = "closed"
    /\ UNCHANGED <<queue, url_set, offered, pending_count, table, worker,
                   settingVars, mainq, ewVars, dwVars, envVars>>

\* ---------------------------------------------------------- DownloadWorker
\* the percentage of the items still to do
PercentRemaining(done, total) == ((total - done) * 100) \div total

\* int((self._done / self._total) * 100): the float product truncated. For
\* totals below 50 the double arithmetic gives the floor of the exact
\* quotient (29 of 50 is the first pair where it gives one less).
Percent(done, total) == (done * 100) \div total

\* int(x / y) for y > 0: truncation towards zero
TruncDiv(x, y) == IF x >= 0 THEN x \div y ELSE -((-x) \div y)

\* a notification of the worker: the signal and its argument
Note(sig, val) == [sig |-> sig, val |-> val]

\* the arguments of total_eta: the "calculating" text, hms(seconds) and the
\* literal "00:00:00" of line 680
EtaCalc == [kind |-> "calc", secs |-> 0]
EtaZero == [kind |-> "zero", secs |-> 0]
\* hms, lines 74-77
hms(seconds) == [kind |-> "hms", secs |-> IF seconds < 0 THEN 0 ELSE seconds]

\* what time.time() - self._start can be, in seconds, when the hook reads it
Elapsed == {-3, 0, 7}

\* the payloads yt-dlp calls the hook with: the status and whether
\* _percent_str parses as a number (then pct is int(float(p_str)))
HookPayloads ==
    {[status |-> "downloading", parses |-> TRUE, pct |-> 50],
     [status |-> "downloading", parses |-> FALSE, pct |-> 0],
     [status |-> "finished", parses |-> FALSE, pct |-> 0]}

\* run, lines 576-648: the empty list, else the set-up; opening the session
\* log may raise, and the exception leaves run before any signal
DwBegin(r) ==
    /\ dw[r].pc = "started"
    /\ IF dw[r].items = <<>>
       THEN /\ dw' = [dw EXCEPT ![r].pc = "ended", ![r].outcome = "failed",
                                ![r].emitted = <<Note("finished", FALSE)>>]
            /\ mainq' = Post(mainq, Finished(r, FALSE, "empty"))
       ELSE \/ /\ dw' = [dw EXCEPT ![r].pc = "top",
                                   ![r].total = Len(dw[r].items),
                                   ![r].done = 0,
                                   ![r].emitted = <<>>]
               /\ UNCHANGED mainq
            \/ /\ dw[r].log_path
               /\ dw' = [dw EXCEPT ![r].pc = "ended", ![r].outcome = "raised",
                                   ![r].emitted = <<>>]
               /\ UNCHANGED mainq
    /\ UNCHANGED <<mainVars, settingVars, ewVars, nruns, envVars>>

\* the top of an iteration without the test of line 652
DwTopUnchecked(r) ==
    /\ dw[r].pc = "top"
    /\ dw' = [dw EXCEPT
                ![r].pc = "downloading",
                ![r].hooks = 0,
                ![r].attempted = Append(@, dw[r].items[dw[r].done + 1].url),
                ![r].emitted = <<Note("file_progress", 0),
                                 Note("file_eta", "--:--")>>]
    /\ UNCHANGED <<mainVars, settingVars, mainq, ewVars, nruns, envVars>>

\* run, lines 651-668: the top of an iteration, as far as the download call
DwTop(r) ==
    /\ dw[r].pc = "top"
    /\ IF dw[r].stop
       THEN /\ dw' = [dw EXCEPT ![r].pc = "ended", ![r].outcome = "cancelled",
                                ![r].emitted = <<Note("finished", FALSE)>>]
            /\ mainq' = Post(mainq, Finished(r, FALSE, "stopped"))
       ELSE /\ dw' = [dw EXCEPT
                        ![r].pc = "downloading",
                        ![r].hooks = 0,
                        ![r].attempted =
                            Append(@, dw[r].items[dw[r].done + 1].url),
                        ![r].emitted = <<Note("file_progress", 0),
                                         Note("file_eta", "--:--")>>]
            /\ UNCHANGED mainq
    /\ UNCHANGED <<mainVars, settingVars, ewVars, nruns, envVars>>

\* hook, lines 588-589: yt-dlp calls the hook during the download and the
\* hook reads _stop
DwHookEnter(r) ==
    /\ dw[r].pc = "downloading"
    /\ dw[r].hooks < MaxHooks
    /\ dw' = [dw EXCEPT ![r].hooks = @ + 1,
                        ![r].emitted = <<>>,
                        ![r].pc = IF dw[r].stop THEN "downloading" ELSE "hook"]
    /\ UNCHANGED <<mainVars, settingVars, mainq, ewVars, nruns, envVars>>

\* the aggregate ETA averaged over at least one item whatever _done is
TotalEtaFromStart(done, total, elapsed) ==
    hms(TruncDiv(elapsed * (total - done), IF done > 0 THEN done ELSE 1))

\* the aggregate ETA averaging over all the items of the run
TotalEtaPerTotal(done, total, elapsed) ==
    IF done > 0 THEN hms(TruncDiv(elapsed * (total - done), total)) ELSE EtaCalc

\* hook, lines 600-606: the aggregate ETA
TotalEta(done, total, elapsed) ==
    IF done > 0 THEN hms(TruncDiv(elapsed * (total - done), done)) ELSE EtaCalc

\* hook, lines 590-608: what it emits for payload d
HookNotes(r, d, elapsed) ==
    IF d.status = "downloading"
    THEN (IF d.parses THEN <<Note("file_progress", d.pct)>> ELSE <<>>)
           \o <<Note("file_eta", "eta"),
                Note("total_eta", TotalEta(dw[r].done, dw[r].total, elapsed))>>
    ELSE <<>>

\* hook, lines 590-608
DwHookEmit(r) ==
    /\ dw[r].pc = "hook"
    /\ \E d \in HookPayloads, elapsed \in Elapsed :
         dw' = [dw EXCEPT ![r].pc = "downloading",
                          ![r].emitted = HookNotes(r, d, elapsed)]
    /\ UNCHANGED <<mainVars, settingVars, mainq, ewVars, nruns, envVars>>

\* the end of an iteration with a test of _stop after the last item too
DwDownloadReturnStopAware(r) ==
    /\ dw[r].pc = "downloading"
    /\ LET done == dw[r].done + 1
           pct == Percent(done, dw[r].total)
       IN  IF done = dw[r].total /\ ~dw[r].stop
           THEN /\ dw' = [dw EXCEPT
                            ![r].pc = "ended", ![r].done = done,
                            ![r].outcome = "completed",
                            ![r].total_progress = 100,
                            ![r].emitted = <<Note("total_progress", pct),
                                             Note("file_progress", 100),
                                             Note("total_progress", 100),
                                             Note("total_eta", EtaZero),
                                             Note("finished", TRUE)>>]
                /\ mainq' = Post(mainq, Finished(r, TRUE, "completed"))
           ELSE IF done = dw[r].total
           THEN /\ dw' = [dw EXCEPT
                            ![r].pc = "ended", ![r].done = done,
                            ![r].outcome = "cancelled",
                            ![r].total_progress = pct,
                            ![r].emitted = <<Note("total_progress", pct),
                                             Note("finished", FALSE)>>]
                /\ mainq' = Post(mainq, Finished(r, FALSE, "stopped"))
           ELSE /\ dw' = [dw EXCEPT
                            ![r].pc = "top", ![r].done = done,
                            ![r].total_progress = pct,
                            ![r].emitted = <<Note("total_progress", pct)>>]
                /\ UNCHANGED mainq
    /\ UNCHANGED <<mainVars, settingVars, ewVars, nruns, envVars>>

\* the end of run without the forced values of lines 678-680
DwDownloadReturnUnforced(r) ==
    /\ dw[r].pc = "downloading"
    /\ LET done == dw[r].done + 1
           pct == Percent(done, dw[r].total)
       IN  IF done = dw[r].total
           THEN /\ dw' = [dw EXCEPT
                            ![r].pc = "ended", ![r].done = done,
                            ![r].outcome = "completed",
                            ![r].total_progress = pct,
                            ![r].emitted = <<Note("total_progress", pct),
                                             Note("finished", TRUE)>>]
                /\ mainq' = Post(mainq, Finished(r, TRUE, "completed"))
           ELSE /\ dw' = [dw EXCEPT
                            ![r].pc = "top", ![r].done = done,
                            ![r].total_progress = pct,
                            ![r].emitted = <<Note("total_progress", pct)>>]
                /\ UNCHANGED mainq
    /\ UNCHANGED <<mainVars, settingVars, ewVars, nruns, envVars>>

\* run, lines 668-681: the download call returns or raises; after the last
\* item, the forced values and finished(True)
DwDownloadReturn(r) ==
    /\ dw[r].pc = "downloading"
    /\ LET done == dw[r].done + 1
           pct == Percent(done, dw[r].total)
       IN  IF done = dw[r].total
           THEN /\ dw' = [dw EXCEPT
                            ![r].pc = "ended", ![r].done = done,
                            ![r].outcome = "completed",
                            ![r].total_progress = 100,
                            ![r].emitted = <<Note("total_progress", pct),
                                             Note("file_progress", 100),
                                             Note("total_progress", 100),
                                             Note("total_eta", EtaZero),
                                             Note("finished", TRUE)>>]
                /\ mainq' = Post(mainq, Finished(r, TRUE, "completed"))
           ELSE /\ dw' = [dw EXCEPT
                            ![r].pc = "top", ![r].done = done,
                            ![r].total_progress = pct,
                            ![r].emitted = <<Note("total_progress", pct)>>]
                /\ UNCHANGED mainq
    /\ UNCHANGED <<mainVars, settingVars, ewVars, nruns, envVars>>

\* ------------------------------------------------------------------ system
\* the resolver's answers the smaller specifications draw from
FewResults ==
    {[kind |-> "raise", title |-> <<>>, entries |-> <<>>],
     [kind |-> "none", title |-> <<>>, entries |-> <<>>],
     [kind |-> "info", title |-> <<>>, entries |-> <<>>],
     [kind |-> "info", title |-> <<>>, entries |-> <<E_a, E_tab>>]}

\* the answers that are listings of tab entries only
TabOnlyResults == {res \in ResolveResults : AllTabs(EntriesOf(res))}

\* one step of the expansion thread
EwStepWith(pool, origs) ==
    /\ \/ EwEnqueue
       \/ EwCheckStop
       \/ EwCheckQueue
       \/ EwPop
       \/ EwExpandBegin(origs)
       \/ EwExtractReturn(pool)
       \/ EwCollectStep
    /\ UNCHANGED <<mainVars, settingVars, dwVars, envVars>>

EwStep == EwStepWith(ResolveResults, {NoResult})

\* one step of a download thread during which yt-dlp never calls the hook
DwCoreStep == \E r \in 1..MaxRuns : DwBegin(r) \/ DwTop(r) \/ DwDownloadReturn(r)

\* one step of a download thread
DwStep ==
    \E r \in 1..MaxRuns :
        \/ DwBegin(r)
        \/ DwTop(r)
        \/ DwHookEnter(r)
        \/ DwHookEmit(r)
        \/ DwDownloadReturn(r)

Next ==
    \/ AddUrls
    \/ MainDeliver
    \/ OnRemoveChecked
    \/ OnClear
    \/ ToggleCheck
    \/ OnPickFolder
    \/ OnToggleLogfile
    \/ OnFilterChanged
    \/ OnStart
    \/ OnStopBegin
    \/ OnStopEnd
    \/ EwStep
    \/ DwStep

\* the whole program
Spec == Init /\ [][Next]_vars

\* The specifications below keep the program's actions and leave some of
\* the user's out.

\* the user only submits references
NextAdd == AddUrls \/ MainDeliver \/ EwStep
SpecAdd == Init /\ [][NextAdd]_vars

\* the user submits references, checks boxes, removes and clears; the
\* resolver answers from FewResults
NextStore ==
    \/ AddUrls
    \/ MainDeliver
    \/ EwStepWith(FewResults, {NoResult})
    \/ OnRemoveChecked
    \/ OnClear
    \/ ToggleCheck
SpecStore == Init /\ [][NextStore]_vars

\* the user submits references and stops; the resolver answers from
\* FewResults
NextPipe ==
    \/ AddUrls
    \/ MainDeliver
    \/ OnStopBegin
    \/ OnStopEnd
    \/ EwStepWith(FewResults, {NoResult})
SpecPipe == Init /\ [][NextPipe]_vars

\* the user submits references, stops, checks and unchecks rows, removes
\* the checked rows and clears the queue; the resolver answers from
\* FewResults
NextTable ==
    \/ AddUrls
    \/ MainDeliver
    \/ OnStopBegin
    \/ OnStopEnd
    \/ EwStepWith(FewResults, {NoResult})
    \/ OnRemoveChecked
    \/ OnClear
    \/ ToggleCheck
SpecTable == Init /\ [][NextTable]_vars

\* the user only submits references; the resolver's answer for a channel
\* root as submitted is part of the state
NextExpand == AddUrls \/ MainDeliver \/ EwStepWith(ResolveResults, TabOnlyResults \cup {NoResult})
SpecExpand == Init /\ [][NextExpand]_vars

\* the user submits references, starts and stops; the resolver answers
\* from FewResults and yt-dlp never calls the progress hook
NextRun ==
    \/ AddUrls
    \/ MainDeliver
    \/ OnStart
    \/ OnStopBegin
    \/ OnStopEnd
    \/ EwStepWith(FewResults, {NoResult})
    \/ DwCoreStep
SpecRun == Init /\ [][NextRun]_vars

\* the user only submits references, the resolver answers from FewResults
\* and every call of it returns; both event loops keep running their slots
\* and timers
NextLive == AddUrls \/ MainDeliver \/ EwStepWith(FewResults, {NoResult})
SpecLive ==
    /\ Init
    /\ [][NextLive]_vars
    /\ WF_vars(EwStepWith(FewResults, {NoResult}))
    /\ WF_vars(MainDeliver)

\* the user submits references and then stops: no reference is submitted
\* once a stop has been requested; the resolver answers from FewResults
AddUrlsBeforeStop == nstops = 0 /\ AddUrls
NextCancel ==
    \/ AddUrlsBeforeStop
    \/ MainDeliver
    \/ OnStopBegin
    \/ OnStopEnd
    \/ EwStepWith(FewResults, {NoResult})
SpecCancel == Init /\ [][NextCancel]_vars

\* The download specification starts where on_start has just created run 1
\* from a queue of n items, all of them checked, with or without a session
\* log; the expansion pipeline is idle.
Digits == <<"1", "2", "3", "4", "5", "6", "7", "8", "9">>
RunItems(n) == [i \in 1..n |-> QueueItem(U_a \o <<Digits[i]>>, T_cat)]

InitDownload ==
    \E n \in 1..MaxItems, log \in BOOLEAN :
        /\ queue = RunItems(n)
        /\ url_set = {RunItems(n)[i].url : i \in 1..n}
        /\ offered = [i \in 1..n |-> RunItems(n)[i].url]
        /\ pending_count = 0
        /\ table = RenderTable(RunItems(n))
        /\ save_folder = TRUE
        /\ log_to_file = log
        /\ filter_exclude_shorts = FALSE
        /\ filter_include_kw = <<>>
        /\ filter_exclude_kw = <<>>
        /\ worker = 1
        /\ main_pc = "ready"
        /\ mainq = <<>>
        /\ requests = <<>>
        /\ timers = 0
        /\ ew_stop = FALSE
        /\ ew_queue = <<>>
        /\ ew_working = FALSE
        /\ ew_pc = "loop"
        /\ ew_url = <<>>
        /\ ew_first = <<>>
        /\ ew_entries = <<>>
        /\ ew_i = 0
        /\ ew_collected = <<>>
        /\ ew_calls = 0
        /\ ew_orig = NoResult
        /\ inflight = 0
        /\ nruns = 1
        /\ dw = [r \in 1..MaxRuns |->
                   IF r = 1 THEN NewRun(RunItems(n), log) ELSE NoRun]
        /\ nsubmits = MaxSubmits
        /\ nstops = 0

\* the run's thread, the user's stop requests and the GUI thread's
\* deliveries
NextDownload == DwStep \/ OnStopBegin \/ OnStopEnd \/ MainDeliver
SpecDownload == InitDownload /\ [][NextDownload]_vars

\* the shutdown specification: a run is in progress, the expansion
\* pipeline is idle, and the user closes the window
NextClose ==
    \/ DwStep
    \/ MainDeliver
    \/ OnCloseBegin
    \/ OnCloseWaitDw
    \/ OnCloseStopEw
    \/ OnCloseWaitEw
SpecClose == InitDownload /\ [][NextClose]_vars

\* The start specification begins with a rendered queue of n items, every
\* second one a shorts URL, and the save folder the settings store holds
\* (line 702; the stored text may be empty); the runs before the last one
\* have completed and on_download_finished has cleared the handle. The user
\* submits references, checks and unchecks rows, edits the filters, picks a
\* folder and presses start.
PastRun ==
    [NewRun(RunItems(1), FALSE) EXCEPT
        !.pc = "ended", !.total = 1, !.done = 1, !.total_progress = 100,
        !.outcome = "completed", !.attempted = <<RunItems(1)[1].url>>,
        !.emitted = <<Note("total_progress", 100), Note("file_progress", 100),
                      Note("total_progress", 100), Note("total_eta", EtaZero),
                      Note("finished", TRUE)>>]

StartItems(n) ==
    [i \in 1..n |->
        QueueItem((IF i % 2 = 0 THEN U_tab ELSE U_a) \o <<Digits[i]>>,
                  IF i % 3 = 1 THEN T_cat ELSE T_dog)]

InitStart ==
    \E n \in 0..MaxItems, folder \in BOOLEAN :
        /\ queue = StartItems(n)
        /\ url_set = {StartItems(n)[i].url : i \in 1..n}
        /\ offered = [i \in 1..n |-> StartItems(n)[i].url]
        /\ pending_count = 0
        /\ table = RenderTable(StartItems(n))
        /\ save_folder = folder
        /\ log_to_file = FALSE
        /\ filter_exclude_shorts = FALSE
        /\ filter_include_kw = <<>>
        /\ filter_exclude_kw = <<>>
        /\ worker = 0
        /\ main_pc = "ready"
        /\ mainq = <<>>
        /\ requests = <<>>
        /\ timers = 0
        /\ ew_stop = FALSE
        /\ ew_queue = <<>>
        /\ ew_working = FALSE
        /\ ew_pc = "loop"
        /\ ew_url = <<>>
        /\ ew_first = <<>>
        /\ ew_entries = <<>>
        /\ ew_i = 0
        /\ ew_collected = <<>>
        /\ ew_calls = 0
        /\ ew_orig = NoResult
        /\ inflight = 0
        /\ nruns = MaxRuns - 1
        /\ dw = [r \in 1..MaxRuns |-> IF r < MaxRuns THEN PastRun ELSE NoRun]
        /\ nsubmits = MaxSubmits - 1
        /\ nstops = 0

NextStart ==
    \/ AddUrls
    \/ ToggleCheck
    \/ OnFilterChanged
    \/ OnPickFolder
    \/ OnStart
SpecStart == InitStart /\ [][NextStart]_vars

\* the user submits references, edits the settings and starts; the
\* resolver answers with a listing or a single entity and yt-dlp never
\* calls the progress hook
SnapResults ==
    {[kind |-> "info", title |-> <<>>, entries |-> <<>>],
     [kind |-> "info", title |-> <<>>, entries |-> <<E_a, E_tab>>]}
NextSnap ==
    \/ AddUrls
    \/ MainDeliver
    \/ OnToggleLogfile
    \/ OnFilterChanged
    \/ OnStart
    \/ EwStepWith(SnapResults, {NoResult})
    \/ DwCoreStep
SpecSnap == InitStart /\ [][NextSnap]_vars

\* The normalization specification: the user adds references one at a time
\* (on_add_clicked) out of a larger pool: a channel, a channel tab written in
\* lower and in upper case, a tab name inside a path, a video and a bare
\* slash, each with and without surrounding blanks and trailing slashes.
B_handle == <<"y","o","u","t","u","b","e",".","c","o","m","/","@","h">>
B_user == <<"x","/","u","s","e","r","/","k">>
B_video == <<"y","t",".","b","e","/","a">>
NormBases ==
    {B_handle, B_user, B_video, <<>>,
     B_handle \o <<"/">> \o S_videos,
     B_handle \o <<"/">> \o S_live,
     B_handle \o <<"/","L","i","v","e">>,
     B_handle \o <<"/">> \o S_live \o <<"/","x">>,
     B_user \o <<" ">>,
     B_video \o <<"/">> \o S_shorts}
NormTails == {<<>>, <<"/">>, <<"/", "/">>, <<" ">>, <<"/", " ">>, <<" ", "/">>}
NormHeads == {<<>>, <<" ">>}
NormRefs == {h \o b \o t : h \in NormHeads, b \in NormBases, t \in NormTails}

NextNorm == AddUrlsFrom({<<r>> : r \in NormRefs})
SpecNorm == Init /\ [][NextNorm]_vars

\* ------------------------------------------------------------- properties
Range(s) == {s[i] : i \in 1..Len(s)}

NoDup(s) == \A i, j \in 1..Len(s) : i # j => s[i] # s[j]

\* the URLs of the queue's items, in queue order
QueueUrls == [i \in 1..Len(queue) |-> queue[i].url]

\* the GUI thread is delivering a completion notification of the pipeline
DeliversFinishedOne ==
    /\ main_pc = "ready"
    /\ mainq # <<>>
    /\ Head(mainq).sig = "finished_one"
    /\ mainq' = Tail(mainq)

\* C1. While items only arrive (on_expand_finished_one), no two items of
\* the queue share a URL, the known-URL set is the set of the distinct URLs
\* offered so far and has as many members as the queue has items, and a
\* notification whose items' URLs are all known already leaves the queue and
\* the set as they were.
C1_DedupOnAdd ==
    /\ [](/\ NoDup(QueueUrls)
          /\ url_set = Range(offered)
          /\ Cardinality(url_set) = Len(queue))
    /\ [][(DeliversFinishedOne
             /\ Range(ItemUrls(Head(mainq).items)) \subseteq url_set)
            => (queue' = queue /\ url_set' = url_set)]_vars

\* a URL was offered that was known already, and the store absorbed it
C1_Witness ==
    /\ queue # <<>>
    /\ Len(offered) > Cardinality(url_set)

\* C2. Under submissions, removals of the checked rows and clears, the
\* known-URL set is exactly the set of the URLs of the queue's items, no
\* URL is there twice, and in every step the items that stay in the queue
\* keep their relative order, the new ones coming after them.
C2_SetMatchesQueue ==
    /\ [](url_set = Range(QueueUrls) /\ NoDup(QueueUrls))
    /\ [][\A i, j \in 1..Len(queue') :
            i < j =>
              /\ queue'[j].url \in Range(QueueUrls)
                   => queue'[i].url \in Range(QueueUrls)
              /\ (queue'[i].url \in Range(QueueUrls)
                    /\ queue'[j].url \in Range(QueueUrls))
                   => \E a, b \in 1..Len(queue) :
                        /\ a < b
                        /\ queue[a] = queue'[i]
                        /\ queue[b] = queue'[j]]_vars

\* one reference was submitted, it gave several items, and a removal took
\* some of them and left the others
C2_Witness ==
    /\ nsubmits = 1
    /\ queue # <<>>
    /\ Range(offered) \ url_set # {}

\* C3. At most one call of the resolver is executing at any time, and the
\* expansion thread is inside that call, whatever the submissions, stops and
\* steps before.
C3_OneResolveInFlight ==
    /\ inflight \in {0, 1}
    /\ inflight = 1 <=> ew_pc \in {"resolve", "retry"}

\* a resolve is executing after a stop, and another reference is on its way
C3_Witness ==
    /\ inflight = 1
    /\ nstops > 0
    /\ requests # <<>>

\* the run's thread is between its start and the end of run()
RunActive(r) == dw[r].pc \in {"started", "top", "downloading"}

\* C4. While a run is active no start request creates another run, and at
\* most one run is inside the download of an item.
C4_OneRunAtATime ==
    /\ [][(\E r \in 1..MaxRuns : RunActive(r)) => nruns' = nruns]_vars
    /\ [](Cardinality({r \in 1..MaxRuns : dw[r].pc = "downloading"}) <= 1)

\* C5. One _expand makes at most two calls of the resolver, and it has made
\* the second one when it reaches the collection loop for a reference that
\* came from a channel root and whose first call returned tab entries only.
C5_ExactlyOneRetry ==
    /\ ew_calls <= 2
    /\ (ew_pc = "collect" /\ FromChannelRoot(ew_url) /\ AllTabs(ew_first))
         => ew_calls = 2

\* lines 513-521 over the whole of "entries"
RECURSIVE CollectFrom(_, _)
CollectFrom(collected, es) ==
    IF es = <<>> THEN collected
    ELSE CollectFrom(CollectOne(collected, Head(es)), Tail(es))

\* the expansion thread emits a completion notification
EmitsFinishedOne ==
    /\ Len(mainq') = Len(mainq) + 1
    /\ mainq'[Len(mainq')].sig = "finished_one"

\* C6. For a channel root whose resolve, as submitted, returns tab entries
\* only, the items of the completion notification are built from the entries
\* of the content-listing variant when these are not all tab entries, and
\* from the original entries otherwise (the variant's resolve failed,
\* returned nothing or returned tab entries only).
C6_ItemsAfterRetry ==
    [][(EmitsFinishedOne
          /\ FromChannelRoot(ew_url)
          /\ AllTabs(EntriesOf(ew_orig)))
         => LET items == mainq'[Len(mainq')].items
            IN  \/ /\ ew_pc = "collect"
                   /\ ~AllTabs(ew_entries)
                   /\ items = CollectFrom(<<>>, ew_entries)
                \/ /\ ~(ew_pc = "collect" /\ ~AllTabs(ew_entries))
                   /\ items = CollectFrom(<<>>, EntriesOf(ew_orig))]_vars

\* nothing of the pipeline is outstanding: no reference on its way to the
\* expansion thread or waiting in its FIFO, no _expand executing, no
\* completion notification on its way back
PipelineIdle ==
    /\ requests = <<>>
    /\ ew_queue = <<>>
    /\ ew_pc \notin {"expand", "resolve", "retry", "collect"}
    /\ \A i \in 1..Len(mainq) : mainq[i].sig # "finished_one"

\* C7. Between two handlers of the GUI thread, the pending counter is zero
\* exactly when the pipeline is idle.
C7_PendingZeroIffIdle ==
    main_pc = "ready" => (pending_count = 0 <=> PipelineIdle)

\* C8. No run is created while a call of the resolver is executing or a
\* submitted reference waits, on its way to the expansion thread or in its
\* FIFO.
C8_NoStartWhilePending ==
    [][nruns' = nruns + 1
         => (inflight = 0 /\ ew_queue = <<>> /\ requests = <<>>)]_vars

\* the references submitted that have no completion notification yet
Waiting ==
    Len(requests) + Len(ew_queue)
      + (IF ew_pc \in {"expand", "resolve", "retry", "collect"} THEN 1 ELSE 0)

\* C9. Without a stop, a reference leaves the pipeline only with a
\* completion notification, and whenever references wait the pipeline comes
\* to a state where none does and it has emitted idle (_working is False and
\* nothing is scheduled).
C9_EveryReferenceCompletes ==
    /\ [][Waiting' < Waiting => (Waiting' = Waiting - 1 /\ EmitsFinishedOne)]_vars
    /\ (Waiting > 0) ~> (Waiting = 0 /\ ~ew_working /\ timers = 0 /\ ew_pc = "loop")

\* the two references were resolved, the second one submitted while the
\* first was waiting or in flight, and the pipeline has emitted idle once
\* for both
C9_Witness ==
    /\ Waiting = 0
    /\ ~ew_working
    /\ mainq = <<Idle>>
    /\ pending_count = 0
    /\ Len(queue) = 2
    /\ queue[1].url = normalize_channel_to_videos(Strip(R_handle))
    /\ queue[2].url = R_short

\* C10. When the coordinator awaits a completion that was submitted after
\* the last stop and no signal is on its way in either direction, the
\* expansion thread has a step scheduled or is inside one.
C10_UsableAfterCancel ==
    (pending_count > 0 /\ main_pc = "ready" /\ requests = <<>> /\ mainq = <<>>)
      => (timers > 0 \/ ew_pc # "loop")

\* the URLs of a list of items, in order
UrlsOf(items) == [i \in 1..Len(items) |-> items[i].url]

Runs == 1..MaxRuns

\* the thread of run r is inside ydl.download (the hook included)
InDownload(r) == dw[r].pc \in {"downloading", "hook"}

\* C11. A run whose top-of-iteration test finds the stop flag set issues no
\* download from then on and ends Cancelled at that step; the done-count is
\* always the number of downloads that have returned, each issued for the
\* next item of the list, so a cancelled run whose (N/2+1)-th download was
\* never issued has a done-count of at most N/2.
C11_CancelAtIterationTop ==
    /\ [](\A r \in Runs :
            /\ dw[r].attempted = SubSeq(UrlsOf(dw[r].items), 1, Len(dw[r].attempted))
            /\ dw[r].done = Len(dw[r].attempted) - (IF InDownload(r) THEN 1 ELSE 0)
            /\ dw[r].outcome = "cancelled"
                 => (dw[r].pc = "ended" /\ dw[r].stop /\ dw[r].done < dw[r].total)
            /\ (dw[r].outcome = "cancelled"
                  /\ Len(dw[r].attempted) <= dw[r].total \div 2)
                 => dw[r].done <= dw[r].total \div 2)
    /\ [][\A r \in Runs :
            /\ (dw[r].stop /\ dw[r].pc \in {"top", "ended"})
                 => dw'[r].attempted = dw[r].attempted
            /\ (dw[r].stop /\ dw[r].pc = "top" /\ dw'[r].pc # "top")
                 => (dw'[r].outcome = "cancelled" /\ dw'[r].done = dw[r].done)]_vars

\* a run of two items was cancelled after its first download returned: the
\* second one was never issued
C11_Witness ==
    /\ dw[1].outcome = "cancelled"
    /\ dw[1].total = 2
    /\ dw[1].done = 1
    /\ Len(dw[1].attempted) = 1

\* stop() was first called on run r while its thread was in run()
StoppedWhileRunning(r) ==
    dw[r].stop_pc \in {"started", "top", "downloading", "hook"}

\* stop() was first called on run r during the download of its last item
StoppedInLastDownload(r) ==
    /\ dw[r].stop_pc \in {"downloading", "hook"}
    /\ dw[r].stop_done = dw[r].total - 1

\* C12, as the claim states it. A run on which stop() was called while it
\* was running never reports Completed.
C12_StopNeverCompletes ==
    \A r \in Runs : StoppedWhileRunning(r) => dw[r].outcome # "completed"

\* C12, amended. A run on which stop() was called while it was running
\* reports Completed exactly when it has ended and the call came during the
\* download of its last item, after which no test of the flag is left; a
\* call that came earlier is found by the test at the top of the next
\* iteration and the run never reports Completed.
C12_StopCompletesOnlyInLastDownload ==
    \A r \in Runs :
        StoppedWhileRunning(r) =>
            /\ dw[r].outcome = "completed"
                 <=> (dw[r].pc = "ended" /\ StoppedInLastDownload(r))
            /\ (dw[r].pc = "ended" /\ ~StoppedInLastDownload(r))
                 => dw[r].outcome \in {"cancelled", "raised"}

\* stop() came during the download of the last of three items and the run
\* reported Completed
C12_Witness ==
    /\ dw[1].total = 3
    /\ StoppedInLastDownload(1)
    /\ dw[1].outcome = "completed"

\* C13. A run reports Failed only for an empty list, without issuing a
\* download; the downloads it issues are for the items of its list, once
\* each and in list order; and a run of a non-empty list that has ended
\* without a stop has reported Completed after attempting every item.
C13_RunOutcomes ==
    \A r \in Runs :
        /\ dw[r].outcome = "failed"
             => (dw[r].items = <<>> /\ dw[r].attempted = <<>>)
        /\ dw[r].attempted = SubSeq(UrlsOf(dw[r].items), 1, Len(dw[r].attempted))
        /\ (dw[r].pc = "ended" /\ dw[r].items # <<>> /\ ~dw[r].stop)
             => (dw[r].outcome = "completed"
                   /\ dw[r].attempted = UrlsOf(dw[r].items))

\* the arguments of the notifications of signal sig among es, in order
RECURSIVE ValsOf(_, _)
ValsOf(es, sig) ==
    IF es = <<>> THEN <<>>
    ELSE (IF Head(es).sig = sig THEN <<Head(es).val>> ELSE <<>>)
           \o ValsOf(Tail(es), sig)

\* C14. While the done-count of a run is 0, every aggregate ETA
\* notification it emits carries the "calculating" text.
C14_EtaCalculatingBeforeFirstItem ==
    \A r \in Runs :
        dw[r].done = 0 =>
            \A i \in 1..Len(dw[r].emitted) :
                dw[r].emitted[i].sig = "total_eta"
                  => dw[r].emitted[i].val = EtaCalc

\* the hook has just emitted an aggregate ETA before the first item of a
\* run of several was done
C14_Witness ==
    /\ dw[1].done = 0
    /\ dw[1].total > 1
    /\ ValsOf(dw[1].emitted, "total_eta") = <<EtaCalc>>

\* C15. The step in which a run emits finished(True) emits before it, as the
\* last per-file percentage 100, as the last aggregate percentage 100 and as
\* the last aggregate ETA the zero text.
C15_ForcedValuesOnCompletion ==
    \A r \in Runs :
        dw[r].outcome = "completed" =>
            LET es == dw[r].emitted
                fp == ValsOf(es, "file_progress")
                tp == ValsOf(es, "total_progress")
                te == ValsOf(es, "total_eta")
            IN  /\ es[Len(es)] = Note("finished", TRUE)
                /\ ValsOf(es, "finished") = <<TRUE>>
                /\ fp # <<>> /\ fp[Len(fp)] = 100
                /\ tp # <<>> /\ tp[Len(tp)] = 100
                /\ te # <<>> /\ te[Len(te)] = EtaZero

\* a run of three items completed; the percentage computed for its last
\* item came before the forced one
C15_Witness ==
    /\ dw[1].outcome = "completed"
    /\ dw[1].total = 3
    /\ Len(ValsOf(dw[1].emitted, "total_progress")) = 2

\* round(done / total * 100), halves upwards
Round(done, total) == (200 * done + total) \div (2 * total)

\* C16. A step of a run emits an aggregate percentage only when it ends the
\* download of an item, and the first one it emits then is
\* round(done / total * 100) for the new done-count.
C16_AggregatePercentRounded ==
    [][\A r \in Runs :
         LET tp == ValsOf(dw'[r].emitted, "total_progress")
         IN  dw'[r] # dw[r] =>
               IF dw'[r].done = dw[r].done + 1
               THEN tp # <<>> /\ tp[1] = Round(dw'[r].done, dw'[r].total)
               ELSE dw'[r].emitted # dw[r].emitted => tp = <<>>]_vars

\* the item passes the three filters the user has set: it is not a shorts
\* URL while shorts are excluded, its title contains the keyword to include
\* if one is set, and does not contain the keyword to exclude if one is set,
\* letter case apart
Matches(qi) ==
    LET shorts == Contains(Lower(qi.url), P_shorts)
        has(kw) == Contains(Lower(qi.title), Lower(kw))
    IN  /\ filter_exclude_shorts => ~shorts
        /\ filter_include_kw # <<>> => has(filter_include_kw)
        /\ filter_exclude_kw # <<>> => ~has(filter_exclude_kw)

\* the queue positions whose row is checked and whose item passes
Selected ==
    LET Keep(i) == i <= Len(table) /\ table[i].checked /\ Matches(queue[i])
    IN  SelectSeq([i \in 1..Len(queue) |-> i], Keep)

\* C17. The list given to a run that starts is exactly the checked queue
\* items that pass the three filters, in queue order.
C17_DispatchedList ==
    [][nruns' = nruns + 1 =>
         dw'[nruns'].items = [k \in 1..Len(Selected) |-> queue[Selected[k]]]]_vars

\* a queue of three checked items whose second is a shorts URL was started
\* with shorts excluded: the run was given the first and the third
C17_Witness ==
    /\ Len(queue) = 3
    /\ Len(table) = 3
    /\ \A r \in 1..3 : table[r].checked
    /\ filter_exclude_shorts
    /\ filter_include_kw = <<>>
    /\ filter_exclude_kw = <<>>
    /\ Selected = <<1, 3>>
    /\ worker = nruns
    /\ dw[worker] # PastRun
    /\ dw[worker].items = <<queue[1], queue[3]>>

\* a start request would be refused: no folder, references still pending,
\* no checked row, or no checked item that passes the filters
StartRefused ==
    \/ ~save_folder
    \/ pending_count > 0
    \/ \A r \in 1..Len(table) : ~table[r].checked
    \/ Selected = <<>>

\* C20. A start request made while it is to be refused starts no run and
\* leaves the queue, the set of known URLs, the pending counter and the
\* active-run handle as they were; no step taken from such a state creates
\* a run.
C20_RefusedStartChangesNothing ==
    /\ [][(StartRefused /\ OnStart) =>
            UNCHANGED <<queue, url_set, pending_count, worker, nruns, dw>>]_vars
    /\ [][StartRefused => UNCHANGED <<worker, nruns, dw>>]_vars

\* every checked item is filtered out, with a folder and nothing pending,
\* and no run has been started
C20_Witness ==
    /\ save_folder
    /\ pending_count = 0
    /\ \E r \in 1..Len(table) : table[r].checked
    /\ Selected = <<>>
    /\ StartRefused
    /\ dw[MaxRuns] = NoRun
    /\ worker = 0

\* C18. normalize_channel_to_videos is idempotent: every reference the
\* user has submitted was passed through it once, and passing the result
\* through it again gives the same text.
C18_NormalizeIdempotent ==
    \A i \in 1..Len(requests) :
        normalize_channel_to_videos(requests[i]) = requests[i]

\* a channel reference was extended by the videos tab, a reference to a tab
\* was kept with its trailing slash, and both are in the requests
C18_Witness ==
    /\ Len(requests) = 2
    /\ requests[1] = B_handle \o <<"/">> \o S_videos
    /\ requests[2] = B_handle \o <<"/">> \o S_live \o <<"/", "/">>

\* C19. A completion notification emitted by a resolver call that was in
\* flight when stop() was called (the call returned with the stop flag set,
\* so the notification is not the partial result of the collection loop)
\* adds no item to the queue when it is handled.
C19_LateResultDiscarded ==
    [][(DeliversFinishedOne
          /\ Head(mainq).stopped
          /\ Head(mainq).msg # "cancelled")
         => queue' = queue]_vars

\* every on_stop requested so far has returned, and there was one
StopReturned == nstops > 0 /\ main_pc = "ready"

\* C21. Once a cancel has returned, no reference submitted before it starts
\* being resolved: where the user submits nothing after the first stop
\* request, no call of the resolver begins after on_stop has returned.
C21_NoResolveAfterCancel ==
    [][StopReturned => ~(ew_pc = "expand" /\ ew_pc' = "resolve")]_vars

\* the expansion thread has popped a reference and is inside its _expand
InExpand == ew_pc \in {"expand", "resolve", "retry", "collect"}

\* C22. A popped reference leaves _expand with exactly one completion
\* notification and none is emitted otherwise; the handling of a completion
\* notification takes one off the pending counter; and a resolve that raised
\* or returned nothing gives a failure notification without items, after
\* which the next _process_next is scheduled with the FIFO as it was.
C22_OneCompletionPerReference ==
    /\ [][(InExpand /\ ~InExpand') <=> EmitsFinishedOne]_vars
    /\ [][DeliversFinishedOne => pending_count' = pending_count - 1]_vars
    /\ [][(EmitsFinishedOne
             /\ mainq'[Len(mainq')].msg \in {"failed", "noinfo"})
            => /\ ew_pc = "resolve"
               /\ ~mainq'[Len(mainq')].ok
               /\ mainq'[Len(mainq')].items = <<>>
               /\ timers' = timers + 1
               /\ ew_queue' = ew_queue]_vars

\* the entries of es that carry a URL, by position
WithUrl(es) == {i \in 1..Len(es) : EntryUrl(es[i]) # <<>>}

\* C23. A completion notification emitted at the end of the collection
\* loop carries one item per non-null entry with a URL, in entry order, and
\* none when no entry has one; a notification that carries the reference
\* itself as its single item is emitted only for an answer that lists no
\* entries at all (a single playable entity).
C23_ItemsPerEntry ==
    [][EmitsFinishedOne =>
         LET m == mainq'[Len(mainq')]
         IN  /\ (ew_pc = "collect" /\ m.ok)
                  => /\ Len(m.items) = Cardinality(WithUrl(ew_entries))
                     /\ m.items = CollectFrom(<<>>, ew_entries)
                     /\ \A i, j \in 1..Len(m.items) :
                          i < j => \E a, b \in WithUrl(ew_entries) :
                                     /\ a < b
                                     /\ m.items[i].url = EntryUrl(ew_entries[a])
                                     /\ m.items[j].url = EntryUrl(ew_entries[b])
             /\ (ew_pc # "collect" /\ m.ok) => m.listed = 0]_vars

\* C24. Inside the collection loop the items collected are those built
\* from the entries visited, a prefix of the list. When the loop finds the
\* stop flag set at the top of an iteration it visits no further entry and
\* _expand ends in that step with one completion notification, tagged
\* user-cancelled, that carries the items collected so far; the tag is used
\* nowhere else.
C24_PartialResultOnCancel ==
    /\ [](ew_pc = "collect"
            => /\ ew_i < Len(ew_entries)
               /\ ew_collected = CollectFrom(<<>>, SubSeq(ew_entries, 1, ew_i)))
    /\ [][(ew_pc = "collect" /\ ew_stop /\ (ew_pc' # ew_pc \/ ew_i' # ew_i))
            => /\ EmitsFinishedOne
               /\ ~mainq'[Len(mainq')].ok
               /\ mainq'[Len(mainq')].msg = "cancelled"
               /\ mainq'[Len(mainq')].items = ew_collected
               /\ ew_pc' = "loop"]_vars
    /\ [][(EmitsFinishedOne /\ mainq'[Len(mainq')].msg = "cancelled")
            => (ew_pc = "collect" /\ ew_stop)]_vars

\* a stop came after the first of two entries was collected: the
\* notification is tagged user-cancelled and carries that one item
C24_Witness ==
    \E i \in 1..Len(mainq) :
        /\ mainq[i].sig = "finished_one"
        /\ mainq[i].msg = "cancelled"
        /\ Len(mainq[i].items) = 1

\* the expansion thread emits the idle notification
EmitsIdle ==
    /\ Len(mainq') = Len(mainq) + 1
    /\ mainq'[Len(mainq')].sig = "idle"

\* C25. The idle notification is emitted only with an empty FIFO and no
\* call of the resolver executing, and the FIFO is empty whenever _working
\* is False.
C25_IdleOnlyWhenDrained ==
    /\ [][EmitsIdle => (ew_queue' = <<>> /\ inflight' = 0 /\ ~InExpand')]_vars
    /\ [](~ew_working => ew_queue = <<>>)

\* the references submitted that have no completion notification yet, the
\* oldest first: the one being resolved, the FIFO, the requests on their way
Pipeline ==
    (IF InExpand THEN <<ew_url>> ELSE <<>>) \o ew_queue \o requests

\* s is the beginning of t
IsPrefix(s, t) == Len(s) <= Len(t) /\ SubSeq(t, 1, Len(s)) = s

\* the URLs of items that the store does not know, each once, in the order
\* of items
NewUrls(items) ==
    LET us == ItemUrls(items)
        Keep(i) == us[i] \notin url_set /\ \A j \in 1..(i - 1) : us[j] # us[i]
        idx == SelectSeq([i \in 1..Len(us) |-> i], Keep)
    IN  [k \in 1..Len(idx) |-> us[idx[k]]]

\* C26. The references waiting keep their order of submission: a step adds
\* references at the end, or takes the oldest one away together with the
\* emission of its completion notification, or (the stop request) clears the
\* FIFO; the reference whose resolve begins is always the oldest one. The
\* queue changes only when a completion notification is handled, and then
\* by the notification's unknown URLs appended in entry order.
C26_SubmissionOrder ==
    /\ [][\/ IsPrefix(Pipeline, Pipeline')
          \/ /\ InExpand /\ ~InExpand'
             /\ Pipeline' = Tail(Pipeline)
             /\ EmitsFinishedOne
          \/ /\ main_pc = "on_stop" /\ main_pc' = "ready"
             /\ ew_queue' = <<>>
             /\ Pipeline' = (IF InExpand THEN <<ew_url>> ELSE <<>>) \o requests]_vars
    /\ [][queue' # queue
            => /\ DeliversFinishedOne
               /\ IsPrefix(queue, queue')
               /\ UrlsOf(SubSeq(queue', Len(queue) + 1, Len(queue')))
                    = NewUrls(Head(mainq).items)]_vars

\* two references were submitted: the listing of the first is in the queue
\* in entry order, and the second is being resolved
C26_Witness ==
    /\ nsubmits = 2
    /\ Len(queue) = 2
    /\ queue[1].url = U_a
    /\ queue[2].url = U_tab
    /\ InExpand
    /\ ew_url = R_short
    /\ Pipeline = <<R_short>>

\* the step is one of on_stop's, taken by the GUI thread
GuiStopStep == main_pc' # main_pc

\* C27. The FIFO and the stop flag of the expansion worker and the stop
\* flag of a download worker change only in steps of the worker's own
\* thread, and the GUI thread is never inside ExpandWorker.stop() while the
\* expansion thread is inside one of its slots.
C27_NoSharedMutableState ==
    /\ [][(ew_stop' # ew_stop \/ ew_queue' # ew_queue) => ~GuiStopStep]_vars
    /\ [][(\E r \in Runs : dw'[r].stop # dw[r].stop) => ~GuiStopStep]_vars
    /\ [](main_pc = "on_stop" => ew_pc = "loop")

\* closeEvent is waiting for the download thread
WaitingForDownload == main_pc = "close_wait_dw" /\ worker # 0

\* closeEvent is waiting for the expansion thread
WaitingForExpansion == main_pc = "close_wait_ew"

\* C28. While closeEvent waits for either thread, stop() has been called on
\* the expansion worker and on the download worker, if there is one; and the
\* window closes only after both waits, with both stops made.
C28_SignalBeforeWait ==
    /\ (WaitingForDownload \/ WaitingForExpansion \/ main_pc = "closed")
         => /\ ew_stop
            /\ worker # 0 => dw[worker].stop
    /\ main_pc = "closed" => (ew_stop /\ ew_queue = <<>>)

\* C29. From its creation on, the item list and the log path of a run
\* never change, whatever the user sets and whatever arrives in the queue;
\* the total the run counts is the length of that list and the downloads it
\* issues are for its items in order.
C29_RunUsesSnapshot ==
    /\ [][\A r \in Runs :
            dw[r].pc # "none"
              => /\ dw'[r].items = dw[r].items
                 /\ dw'[r].log_path = dw[r].log_path
                 /\ dw[r].pc # "started" => dw'[r].total = dw[r].total]_vars
    /\ [](\A r \in Runs :
            /\ dw[r].attempted
                 = SubSeq(UrlsOf(dw[r].items), 1, Len(dw[r].attempted))
            /\ dw[r].pc \in {"top", "downloading"}
                 => dw[r].total = Len(dw[r].items))

\* during a download the log setting differs from the run's, shorts are now
\* excluded although the run holds one, and the queue has grown past the
\* run's list
C29_Witness ==
    /\ worker # 0
    /\ dw[worker].pc = "downloading"
    /\ log_to_file # dw[worker].log_path
    /\ filter_exclude_shorts
    /\ \E k \in 1..Len(dw[worker].items) : ~PassesFilter(dw[worker].items[k])
    /\ Len(queue) > Len(dw[worker].items)

\* the numeric aggregate ETAs among the notifications a step of run r emitted
NumericEtas(r) ==
    {dw[r].emitted[k].val : k \in
        {j \in 1..Len(dw[r].emitted) :
            /\ dw[r].emitted[j].sig = "total_eta"
            /\ dw[r].emitted[j].val.kind = "hms"}}

\* C30. A numeric aggregate ETA is reported only with at least one item
\* done, and its seconds are the whole part of elapsed * (total - done) / done
\* for an elapsed time the hook can read, or zero when that is negative.
C30_AggregateEtaValue ==
    \A r \in Runs : \A v \in NumericEtas(r) :
        /\ dw[r].done > 0
        /\ v.secs >= 0
        /\ \E e \in Elapsed :
             LET num == e * (dw[r].total - dw[r].done)
             IN  IF num < 0 THEN v.secs = 0
                 ELSE /\ v.secs * dw[r].done <= num
                      /\ num < (v.secs + 1) * dw[r].done

\* a numeric ETA above zero is reported with items done and items left
C30_Witness ==
    \E r \in Runs : \E v \in NumericEtas(r) :
        /\ v.secs > 0
        /\ dw[r].done > 0
        /\ dw[r].done < dw[r].total

\* the rows of the queue holding the item at position k of run r's list
QueueRowsOf(r, k) ==
    {i \in 1..Len(queue) : queue[i].url = dw[r].items[k].url}

\* C31. Once a run has attempted an item (its download has returned and the
\* done count covers it), the item's status in the queue is no longer
\* Queued; and at most one item of the queue has status Downloading.
C31_StatusFollowsRun ==
    /\ \A r \in Runs : \A k \in 1..dw[r].done : \A i \in QueueRowsOf(r, k) :
           queue[i].status # "Queued"
    /\ Cardinality({i \in 1..Len(queue) : queue[i].status = "Downloading"}) <= 1

\* the finished notifications of run r waiting in the GUI thread's queue
FinishedQueued(r) ==
    {k \in 1..Len(mainq) : mainq[k].sig = "finished" /\ mainq[k].run = r}

\* C32. A run that has left run() emitted finished exactly once, as its last
\* notification; a run still inside run() has emitted none; and while the
\* window still holds an ended run, that run's finished notification is on
\* its way, so that on_download_finished clears the handle.
C32_FinishedExactlyOnce ==
    \A r \in Runs :
        /\ Cardinality(FinishedQueued(r)) <= 1
        /\ dw[r].pc \notin {"none", "ended"}
             => (FinishedQueued(r) = {} /\ ValsOf(dw[r].emitted, "finished") = <<>>)
        /\ dw[r].pc = "ended"
             => /\ Len(ValsOf(dw[r].emitted, "finished")) = 1
                /\ dw[r].emitted[Len(dw[r].emitted)].sig = "finished"
                /\ worker = r => FinishedQueued(r) # {}

\* C33. The table never has more rows than the queue has items, and row r
\* shows the item at queue position r (its url, and its title or else its
\* url), so every checked row addresses an item of the queue, the one shown.
C33_RowsAddressQueue ==
    /\ Len(table) <= Len(queue)
    /\ \A r \in 1..Len(table) :
         /\ table[r].shows = queue[r].url
         /\ table[r].title = Or(queue[r].title, queue[r].url)

\* after a stop, with the pipeline not working, the queue has grown past a
\* table that has a checked and an unchecked row: remove and start read the
\* rows of the stale table
C33_Witness ==
    /\ nstops > 0
    /\ main_pc = "ready"
    /\ ~Working
    /\ Len(table) < Len(queue)
    /\ \E r \in 1..Len(table) : table[r].checked
    /\ \E r \in 1..Len(table) : ~table[r].checked

\* the expansion thread is inside _process_next
InProcessNext == ew_pc # "loop"

\* C34. _working is true exactly while a _process_next step is scheduled or
\* executing, and there is at most one such step: never two timers, and no
\* timer while a step executes.
C34_WorkingIffOneChain ==
    /\ ew_working <=> (timers > 0 \/ InProcessNext)
    /\ timers <= 1
    /\ InProcessNext => timers = 0

\* the step is one of run r's thread, not a stop() of the GUI thread
WorkerStep(r) ==
    <<dw'[r].pc, dw'[r].done, dw'[r].hooks>> # <<dw[r].pc, dw[r].done, dw[r].hooks>>

\* s is non-decreasing and within 0..100
Ascending(s) ==
    /\ \A k \in 1..Len(s) : 0 <= s[k] /\ s[k] <= 100
    /\ \A k \in 1..(Len(s) - 1) : s[k] <= s[k + 1]

\* C35. The done count of a run changes only by one, when the download of
\* an item returns, and every download issued is counted once it has
\* returned; the count never exceeds the total; and the aggregate
\* percentages a run emits, each after the last one before it, are
\* non-decreasing and within 0..100.
C35_DoneAndPercentMonotone ==
    /\ [](\A r \in Runs :
            /\ dw[r].pc \notin {"none", "started"} => dw[r].done <= dw[r].total
            /\ Len(dw[r].attempted) = dw[r].done + (IF InDownload(r) THEN 1 ELSE 0))
    /\ [][\A r \in Runs :
            /\ dw'[r].done # dw[r].done
                 => (InDownload(r) /\ dw'[r].done = dw[r].done + 1)
            /\ (InDownload(r) /\ ~InDownload(r)') => dw'[r].done = dw[r].done + 1
            /\ WorkerStep(r)
                 => Ascending(<<dw[r].total_progress>>
                                \o ValsOf(dw'[r].emitted, "total_progress"))]_vars

\* the second of three downloads has returned: the run announced 66 after 33
C35_Witness ==
    \E r \in Runs :
        /\ dw[r].total = 3
        /\ dw[r].done = 2
        /\ dw[r].pc = "top"
        /\ dw[r].total_progress = 66
        /\ ValsOf(dw[r].emitted, "total_progress") = <<66>>

\* C36. The pending counter is never negative, and a completion delivered
\* while it is zero leaves it at zero.
C36_PendingNeverNegative ==
    /\ [](pending_count >= 0)
    /\ [][(DeliversFinishedOne /\ pending_count = 0) => pending_count' = 0]_vars

\* a stop has reset the counter to zero and a completion emitted by the
\* expansion thread is the next notification the GUI thread handles
C36_Witness ==
    /\ nstops > 0
    /\ main_pc = "ready"
    /\ pending_count = 0
    /\ mainq # <<>>
    /\ Head(mainq).sig = "finished_one"

\* the notifications of the progress callback among those a step emitted
CallbackNotes(es) ==
    {k \in 1..Len(es) : es[k].sig \in {"file_progress", "file_eta", "total_eta"}}

\* C37. Once stop() has been called on a run, no step of the progress
\* callback emits a per-file percentage, a per-file ETA or an aggregate ETA:
\* a call of the callback that begins after the stop returns at once, and a
\* call that is under way emits nothing more.
C37_NoCallbackNotesAfterStop ==
    [][\A r \in Runs :
         (dw[r].stop /\ WorkerStep(r) /\ InDownload(r) /\ InDownload(r)')
           => CallbackNotes(dw'[r].emitted) = {}]_vars

====
